---- MODULE Spec2Model ----
(***************************************************************************)
(* Model of simple-astar (src/src/lib.rs): the astar search over a         *)
(* row-major grid of u32 traversal costs, its neighbour generation, the    *)
(* frontier ordering and the path reconstruction.                          *)
(*                                                                         *)
(* Cells are the indices 0..len-1 of the grid vector.  All costs of the    *)
(* model are far below 2^32, so no u32 addition of the search wraps.       *)
(***************************************************************************)
EXTENDS Integers, Sequences, FiniteSets, Bags, TLC

\* ---------------------------------------------------------------- bounds
\* widest grid, tallest grid and largest number of cells of a call
MaxWidth == 3
MaxHeight == 2
MaxLen == 6
\* the cost of an expensive cell; a cell costs 0 (impassable), 1 or MaxCost
MaxCost == 3

\* the cell costs the calls are drawn from
CostValues == {0, 1, MaxCost}

\* the (width, len) pairs of the grids the calls are drawn from
Shapes ==
    {sh \in (1..MaxWidth) \X (1..MaxLen) :
        sh[2] % sh[1] = 0 /\ sh[2] \div sh[1] <= MaxHeight}

VARIABLES grid, width, start, end, cardinal_directions,
          frontier, cost_so_far, came_from,
          current_position, last, path, pc

inputs == <<grid, width, start, end, cardinal_directions>>
vars == <<grid, width, start, end, cardinal_directions,
          frontier, cost_so_far, came_from,
          current_position, last, path, pc>>

\* ------------------------------------------------------------- helpers
\* grid.len()
GridLen(g) == Cardinality(DOMAIN g)

\* i32::abs
Abs(i) == IF i < 0 THEN -i ELSE i

\* map.insert(k, v) on a hash map kept as a function over its key set
MapInsert(m, k, v) == [c \in DOMAIN m \cup {k} |-> IF c = k THEN v ELSE m[c]]

\* Vec::reverse
RECURSIVE Reverse(_)
Reverse(s) == IF s = <<>> THEN <<>> ELSE Reverse(Tail(s)) \o <<Head(s)>>

\* value of the popped entry before the first pop
NoCell == -1

\* ------------------------------------------------ FrontierItem ordering
\* u32::cmp as -1 (Less), 0 (Equal), 1 (Greater)
U32Cmp(a, b) == IF a < b THEN -1 ELSE IF a > b THEN 1 ELSE 0

\* a variant of the ordering that breaks ties towards the lower position
cmp_LowerIndexFirst(self, other) ==
    IF U32Cmp(other.cost, self.cost) # 0
    THEN U32Cmp(other.cost, self.cost)
    ELSE U32Cmp(other.position, self.position)

\* a variant of the ordering that is not reversed on cost
cmp_MaxCostFirst(self, other) ==
    IF U32Cmp(self.cost, other.cost) # 0
    THEN U32Cmp(self.cost, other.cost)
    ELSE U32Cmp(self.position, other.position)

\* impl Ord for FrontierItem: other.cost.cmp(self.cost).then_with(position)
cmp(self, other) ==
    IF U32Cmp(other.cost, self.cost) # 0
    THEN U32Cmp(other.cost, self.cost)
    ELSE U32Cmp(self.position, other.position)

\* BinaryHeap::pop: the greatest entry under cmp
HeapPeek(fr) ==
    CHOOSE i \in BagToSet(fr) : \A j \in BagToSet(fr) : cmp(i, j) >= 0

\* a variant of pop that leaves the entry in the heap
HeapPop_Keep(fr) == fr

\* BinaryHeap::pop: the heap without its greatest entry
HeapPop(fr) == fr (-) SetToBag({HeapPeek(fr)})

\* ------------------------------------------------------ neighbour cells
\* a variant that forgets the right-edge test (wraps across a row end)
get_neighbor_coords_Wrap(current, g, w, cd) ==
    LET n == GridLen(g)
        x == current % w
        is_left == x = 0
        left == IF ~is_left /\ g[current - 1] > 0 THEN <<current - 1>> ELSE <<>>
        right == IF current + 1 < n /\ g[current + 1] > 0
                 THEN <<current + 1>> ELSE <<>>
        top == IF current >= w /\ g[current - w] > 0
               THEN <<current - w>> ELSE <<>>
        bottom == IF current < n - w /\ g[current + w] > 0
                  THEN <<current + w>> ELSE <<>>
    IN  top \o left \o right \o bottom

\* a variant that returns diagonal cells in cardinal mode too
get_neighbor_coords_AlwaysDiagonal(current, g, w, cd) ==
    LET n == GridLen(g)
        is_top == current < w
        is_bottom == current >= n - w
        x == current % w
        is_left == x = 0
        is_right == x = w - 1
        Cell(ok, c) == IF ok /\ g[c] > 0 THEN <<c>> ELSE <<>>
    IN  Cell(~is_top, current - w)
        \o Cell(~is_top /\ ~is_left, current - w - 1)
        \o Cell(~is_top /\ ~is_right, current - w + 1)
        \o Cell(~is_left, current - 1)
        \o Cell(~is_right, current + 1)
        \o Cell(~is_bottom, current + w)
        \o Cell(~is_bottom /\ ~is_left, current + w - 1)
        \o Cell(~is_bottom /\ ~is_right, current + w + 1)

\* fn get_neighbor_coords: the neighbours in the order they are pushed
get_neighbor_coords(current, g, w, cd) ==
    LET n == GridLen(g)
        is_top == current < w
        is_bottom == current >= n - w
        x == current % w
        is_left == x = 0
        is_right == x = w - 1
        top_index == current - w
        bottom_index == current + w
        top ==
            IF ~is_top
            THEN (IF g[top_index] > 0 THEN <<top_index>> ELSE <<>>)
                 \o (IF ~cd
                     THEN (IF ~is_left /\ g[top_index - 1] > 0
                           THEN <<top_index - 1>> ELSE <<>>)
                          \o (IF ~is_right /\ g[top_index + 1] > 0
                              THEN <<top_index + 1>> ELSE <<>>)
                     ELSE <<>>)
            ELSE <<>>
        left == IF ~is_left /\ g[current - 1] > 0 THEN <<current - 1>> ELSE <<>>
        right == IF ~is_right /\ g[current + 1] > 0 THEN <<current + 1>> ELSE <<>>
        bottom ==
            IF ~is_bottom
            THEN (IF g[bottom_index] > 0 THEN <<bottom_index>> ELSE <<>>)
                 \o (IF ~cd
                     THEN (IF ~is_left /\ g[bottom_index - 1] > 0
                           THEN <<bottom_index - 1>> ELSE <<>>)
                          \o (IF ~is_right /\ g[bottom_index + 1] > 0
                              THEN <<bottom_index + 1>> ELSE <<>>)
                     ELSE <<>>)
            ELSE <<>>
    IN  top \o left \o right \o bottom

\* ------------------------------------------------------------ distances
\* a variant that counts a diagonal step as one
manhattan_Chebyshev(x1, y1, x2, y2) ==
    IF Abs(x1 - x2) > Abs(y1 - y2) THEN Abs(x1 - x2) ELSE Abs(y1 - y2)

\* a variant that doubles the distance
manhattan_Double(x1, y1, x2, y2) == 2 * (Abs(x1 - x2) + Abs(y1 - y2))

\* fn manhattan
manhattan(x1, y1, x2, y2) == Abs(x1 - x2) + Abs(y1 - y2)

\* manhattan between two cells of the grid, as astar computes it from
\* idx % width and idx / width
CellManhattan(a, b) ==
    manhattan(a % width, a \div width, b % width, b \div width)

\* ---------------------------------------------------------- relaxation
\* a variant of the relaxation test that also accepts an equal cost
Improves_OrEqual(cost, neighbor_cost_so_far) ==
    neighbor_cost_so_far = 0 \/ cost <= neighbor_cost_so_far

\* a variant of the relaxation test that accepts every cost
Improves_Always(cost, neighbor_cost_so_far) == TRUE

\* the test `neighbor_cost_so_far == 0 || cost < neighbor_cost_so_far`
Improves(cost, neighbor_cost_so_far) ==
    neighbor_cost_so_far = 0 \/ cost < neighbor_cost_so_far

\* one iteration of the for loop over neighbor_coords; st is the record of
\* the three collections <cost_so_far, came_from, frontier>
RelaxOne(st, cur, neighbor) ==
    LET neighbor_cost == grid[neighbor]
        cost == st.cs[cur] + neighbor_cost + CellManhattan(cur, neighbor)
        neighbor_cost_so_far ==
            IF neighbor \in DOMAIN st.cs THEN st.cs[neighbor] ELSE 0
        priority == cost + CellManhattan(end, neighbor)
    IN  IF Improves(cost, neighbor_cost_so_far)
        THEN [cs |-> MapInsert(st.cs, neighbor, cost),
              fr |-> st.fr (+) SetToBag({[position |-> neighbor, cost |-> priority]}),
              cf |-> MapInsert(st.cf, neighbor, cur)]
        ELSE st

\* the for loop over neighbor_coords, from index idx on
RECURSIVE RelaxAll(_, _, _, _)
RelaxAll(st, cur, neighbor_coords, idx) ==
    IF idx > Len(neighbor_coords)
    THEN st
    ELSE RelaxAll(RelaxOne(st, cur, neighbor_coords[idx]), cur,
                  neighbor_coords, idx + 1)

\* ----------------------------------------------------------------- Init
\* before the call: no grid, no collections
Init ==
    /\ grid = <<>>
    /\ width = 1
    /\ start = NoCell
    /\ end = NoCell
    /\ cardinal_directions = FALSE
    /\ cost_so_far = <<>>
    /\ frontier = EmptyBag
    /\ came_from = <<>>
    /\ current_position = NoCell
    /\ last = NoCell
    /\ path = <<>>
    /\ pc = "call"

\* -------------------------------------------------------------- actions
\* astar is called with a valid grid (width > 0, len % width = 0), start
\* and end in range and either mode; the frontier and the maps are set up
Call ==
    /\ pc = "call"
    /\ \E sh \in Shapes :
          /\ width' = sh[1]
          /\ grid' \in [0..(sh[2] - 1) -> CostValues]
          /\ start' \in 0..(sh[2] - 1)
          /\ end' \in 0..(sh[2] - 1)
    /\ cardinal_directions' \in BOOLEAN
    /\ cost_so_far' = MapInsert(<<>>, start', 1)
    /\ frontier' = SetToBag({[position |-> start', cost |-> 0]})
    /\ came_from' = <<>>
    /\ pc' = "search"
    /\ UNCHANGED <<current_position, last, path>>

\* the three collections after the body of the search loop has popped the
\* greatest entry and relaxed the neighbours of its cell
Expanded ==
    LET cur == HeapPeek(frontier).position
    IN  RelaxAll([cs |-> cost_so_far, cf |-> came_from, fr |-> HeapPop(frontier)],
                 cur,
                 get_neighbor_coords(cur, grid, width, cardinal_directions),
                 1)

\* one iteration of the search loop that pops a cell other than end and
\* relaxes its neighbours
Expand ==
    /\ pc = "search"
    /\ frontier # EmptyBag
    /\ HeapPeek(frontier).position # end
    /\ current_position' = HeapPeek(frontier).position
    /\ cost_so_far' = Expanded.cs
    /\ came_from' = Expanded.cf
    /\ frontier' = Expanded.fr
    /\ UNCHANGED <<inputs, last, path, pc>>

\* the iteration of the search loop that pops end and breaks
PopGoal ==
    /\ pc = "search"
    /\ frontier # EmptyBag
    /\ HeapPeek(frontier).position = end
    /\ current_position' = HeapPeek(frontier).position
    /\ frontier' = HeapPop(frontier)
    /\ last' = end
    /\ pc' = "reconstruct"
    /\ UNCHANGED <<inputs, cost_so_far, came_from, path>>

\* the search loop ends because the frontier is empty
Exhausted ==
    /\ pc = "search"
    /\ frontier = EmptyBag
    /\ last' = end
    /\ pc' = "reconstruct"
    /\ UNCHANGED <<inputs, frontier, cost_so_far, came_from, current_position, path>>

\* one iteration of the reconstruction loop
ReconstructStep ==
    /\ pc = "reconstruct"
    /\ last \in DOMAIN came_from
    /\ path' = Append(path, last)
    /\ IF last = start
       THEN /\ pc' = "reverse"
            /\ last' = last
       ELSE /\ pc' = "reconstruct"
            /\ last' = came_from[last]
    /\ UNCHANGED <<inputs, frontier, cost_so_far, came_from, current_position>>

\* the reconstruction loop ends; path.reverse() and return
Finish ==
    /\ \/ pc = "reverse"
       \/ pc = "reconstruct" /\ last \notin DOMAIN came_from
    /\ path' = Reverse(path)
    /\ pc' = "done"
    /\ UNCHANGED <<inputs, frontier, cost_so_far, came_from, current_position, last>>

Next == Call \/ Expand \/ PopGoal \/ Exhausted \/ ReconstructStep \/ Finish

Spec == Init /\ [][Next]_vars

TypeOK ==
    /\ pc \in {"call", "search", "reconstruct", "reverse", "done"}
    /\ DOMAIN cost_so_far \subseteq DOMAIN grid
    /\ DOMAIN came_from \subseteq DOMAIN grid
\* ------------------------------------------------- reference definitions
\* The grid geometry the claims speak of, written in (x, y) coordinates and
\* independently of the operators above.
Cells == DOMAIN grid

\* distance along a row and along a column between two cells of a grid of
\* width w
XDist(w, a, b) ==
    IF (a % w) >= (b % w) THEN (a % w) - (b % w) ELSE (b % w) - (a % w)
YDist(w, a, b) ==
    IF (a \div w) >= (b \div w)
    THEN (a \div w) - (b \div w)
    ELSE (b \div w) - (a \div w)

\* one step apart under a movement mode, in a grid of width w
AdjacentIn(w, a, b, cd) ==
    IF cd
    THEN XDist(w, a, b) + YDist(w, a, b) = 1
    ELSE a # b /\ XDist(w, a, b) <= 1 /\ YDist(w, a, b) <= 1

ColOf(c) == c % width
DX(a, b) == XDist(width, a, b)
DY(a, b) == YDist(width, a, b)
Adjacent(a, b, cd) == AdjacentIn(width, a, b, cd)

\* the cells a move from a may enter
Moves(a, cd) == {b \in Cells : Adjacent(a, b, cd) /\ grid[b] > 0}

\* the cells reachable from the cells of S by moves into cells of cost > 0
RECURSIVE ReachFrom(_, _)
ReachFrom(S, cd) ==
    LET T == S \cup UNION {Moves(a, cd) : a \in S}
    IN  IF T = S THEN S ELSE ReachFrom(T, cd)

Reachable(a, b, cd) == b \in ReachFrom({a}, cd)

\* the elements of a sequence
Elems(s) == {s[i] : i \in 1..Len(s)}

\* C1: a non-empty result is a walk from start to end: it ends at end, does
\* not contain start, begins at a neighbour of start, every two consecutive
\* cells are one step apart under the selected mode, every cell has cost
\* > 0, and no cell occurs twice.
C1_ValidWalk ==
    (pc = "done" /\ path # <<>>) =>
        /\ path[Len(path)] = end
        /\ start \notin Elems(path)
        /\ Adjacent(start, path[1], cardinal_directions)
        /\ \A i \in 1..(Len(path) - 1) :
              Adjacent(path[i], path[i + 1], cardinal_directions)
        /\ \A i \in 1..Len(path) : path[i] \in Cells /\ grid[path[i]] > 0
        /\ Cardinality(Elems(path)) = Len(path)

\* a returned walk of three or more cells that had to go round a wall
C1_Witness ==
    /\ pc = "done"
    /\ Len(path) >= 3
    /\ \E c \in Cells : grid[c] = 0

\* the empty result means start = end or end unreachable, and conversely
EmptyIff ==
    pc = "done" =>
        (path = <<>> <=>
            (start = end \/ ~Reachable(start, end, cardinal_directions)))

\* every cell one step from end has cost 0
WalledOff == \A b \in Cells : Adjacent(end, b, cardinal_directions) => grid[b] = 0

\* C2 as stated: the empty result means start = end or end unreachable; in
\* particular a walled-off end, or an end of cost 0, gives the empty result.
C2_Original ==
    /\ EmptyIff
    /\ (pc = "done" /\ (WalledOff \/ grid[end] = 0)) => path = <<>>

\* C2 amended: as stated, except that a walled-off end gives the empty
\* result only when start is not one of the cells next to end.
C2_EmptyIffUnreachable ==
    /\ EmptyIff
    /\ (pc = "done" /\ grid[end] = 0) => path = <<>>
    /\ (pc = "done" /\ WalledOff
           /\ ~Adjacent(start, end, cardinal_directions)) => path = <<>>

\* an empty result for a walled-off end with start elsewhere and passable
C2_Witness ==
    /\ pc = "done"
    /\ path = <<>>
    /\ start # end
    /\ grid[end] > 0 /\ grid[start] > 0
    /\ WalledOff
    /\ Cardinality(Cells) >= 4

\* C6: for the inputs of every call, get_neighbor_coords returns, without
\* repetition, exactly the in-grid
\* cells of cost > 0 one step from the cell: the orthogonal ones in cardinal
\* mode, the surrounding ones otherwise; none across a row end; a diagonal
\* cell also when both orthogonal cells next to it have cost 0.
C6_NeighborsExact ==
    (pc = "search" /\ current_position = NoCell) => \A c \in Cells : \A cd \in BOOLEAN :
        LET nb == get_neighbor_coords(c, grid, width, cd)
        IN  /\ Elems(nb) = Moves(c, cd)
            /\ Cardinality(Elems(nb)) = Len(nb)
            /\ Len(nb) <= (IF cd THEN 4 ELSE 8)

\* a cell at a row end with a passable cell at the next index, and a
\* diagonal neighbour returned although both cells beside it are walls
C6_Witness ==
    /\ pc = "search"
    /\ current_position = NoCell
    /\ width >= 2
    /\ \E c \in Cells :
          /\ ColOf(c) = width - 1
          /\ c + 1 \in Cells /\ grid[c + 1] > 0
    /\ \E c \in Cells : \E d \in Cells :
          /\ DX(c, d) = 1 /\ DY(c, d) = 1
          /\ d \in Elems(get_neighbor_coords(c, grid, width, FALSE))
          /\ \A o \in Cells :
                (Adjacent(c, o, TRUE) /\ Adjacent(d, o, TRUE)) => grid[o] = 0

\* the cells on the came_from chain of a cell, the cell included; n bounds
\* the number of links followed
RECURSIVE Chain(_, _)
Chain(c, n) ==
    IF c \in DOMAIN came_from /\ n > 0
    THEN <<c>> \o Chain(came_from[c], n - 1)
    ELSE <<c>>

\* C10: start has no came_from entry; the predecessor p of a cell n is one
\* step from n, has a cost, and cost_so_far[n] >= cost_so_far[p] + grid[n] +
\* manhattan(p, n) > cost_so_far[p]; the came_from chain of a discovered cell
\* repeats no cell and ends at start; reconstruction never meets start.
C10_CameFromTree ==
    pc # "call" =>
        /\ start \notin DOMAIN came_from
        /\ \A n \in DOMAIN came_from :
              LET p == came_from[n]
              IN  /\ Adjacent(p, n, cardinal_directions)
                  /\ p \in DOMAIN cost_so_far
                  /\ n \in DOMAIN cost_so_far
                  /\ cost_so_far[n] >= cost_so_far[p] + grid[n] + DX(p, n) + DY(p, n)
                  /\ cost_so_far[p] + grid[n] + DX(p, n) + DY(p, n) > cost_so_far[p]
        /\ \A n \in DOMAIN cost_so_far :
              LET ch == Chain(n, Cardinality(Cells))
              IN  /\ Cardinality(Elems(ch)) = Len(ch)
                  /\ ch[Len(ch)] = start
        /\ ~(pc = "reconstruct" /\ last = start /\ last \in DOMAIN came_from)
        /\ pc # "reverse"

\* reconstruction has begun, start has cost > 0 (so it was offered as a
\* neighbour) and some cell lies three links or more from start
C10_Witness ==
    /\ pc = "reconstruct"
    /\ grid[start] > 0
    /\ \E n \in DOMAIN came_from :
          /\ came_from[n] # start
          /\ came_from[came_from[n]] # start
\* ------------------------------------------------------- least path cost
\* larger than the cost of any walk that repeats no cell
Unreached == MaxLen * (MaxCost + 2) + MaxLen + 1

Least(S) == CHOOSE v \in S : \A u \in S : v <= u

\* the sequence <<F(0), ..., F(n - 1)>>
RECURSIVE Tabulate(_, _)
Tabulate(F(_), n) ==
    IF n = 0 THEN <<>> ELSE Append(Tabulate(F, n - 1), F(n - 1))

\* Bellman-Ford towards a goal in the grid g of width w, run to its fixed
\* point: d is the sequence of the least costs found so far, d[n + 1] for the
\* cell n, of a walk from n to the goal, the cost of a step into the cell m
\* being g[m] + 1 for an orthogonal and g[m] + 2 for a diagonal step
RECURSIVE CostToGoal(_, _, _, _)
CostToGoal(d, g, w, cd) ==
    LET Round(n) ==
            Least({d[n + 1]} \cup
                  {g[m] + XDist(w, n, m) + YDist(w, n, m) + d[m + 1] :
                      m \in {c \in DOMAIN g :
                                /\ g[c] > 0
                                /\ d[c + 1] < Unreached
                                /\ AdjacentIn(w, n, c, cd)}})
        next == Tabulate(Round, Len(d))
    IN  IF next = d THEN d ELSE CostToGoal(next, g, w, cd)

\* the least costs of the walks to goal: at index n + 1 that of a walk from
\* the cell n, Unreached if there is none
LeastCosts(g, w, goal, cd) ==
    LET First(n) == IF n = goal THEN 0 ELSE Unreached
    IN  CostToGoal(Tabulate(First, Cardinality(DOMAIN g)), g, w, cd)

\* the cost of the returned path, each step into n costing grid[n] + 1
RECURSIVE CardinalCost(_)
CardinalCost(p) ==
    IF p = <<>> THEN 0 ELSE grid[Head(p)] + 1 + CardinalCost(Tail(p))

\* the cost of a walk that leaves the cell from and follows p, each step
\* into n costing grid[n] + manhattan(previous cell, n)
RECURSIVE WalkCost(_, _)
WalkCost(from, p) ==
    IF p = <<>>
    THEN 0
    ELSE grid[Head(p)] + DX(from, Head(p)) + DY(from, Head(p))
         + WalkCost(Head(p), Tail(p))

\* C3: in cardinal mode a non-empty result has the least total cost, the
\* sum of grid[n] + 1 over its cells, among the cardinal walks from start to
\* end through cells of cost > 0.
C3_CardinalOptimal ==
    (pc = "done" /\ cardinal_directions /\ path # <<>>) =>
        CardinalCost(path) = LeastCosts(grid, width, end, TRUE)[start + 1]

\* a cardinal result that is longer than the shortest walk in steps, the
\* direct way leading through an expensive cell
C3_Witness ==
    /\ pc = "done"
    /\ cardinal_directions
    /\ path # <<>>
    /\ Len(path) > DX(start, end) + DY(start, end)
    /\ \E c \in Cells : Reachable(start, c, TRUE) /\ grid[c] = MaxCost

\* C4: in 8-directional mode a non-empty result has the least total cost,
\* the sum of grid[n] + manhattan(previous cell, n) over its steps, among
\* the 8-directional walks from start to end through cells of cost > 0.
C4_DiagonalOptimal ==
    (pc = "done" /\ ~cardinal_directions /\ path # <<>>) =>
        WalkCost(start, path) = LeastCosts(grid, width, end, FALSE)[start + 1]

\* an 8-directional result with a diagonal step and an orthogonal step that
\* avoids an expensive passable cell
C4_Witness ==
    /\ pc = "done"
    /\ ~cardinal_directions
    /\ Len(path) >= 2
    /\ \E i \in 1..(Len(path) - 1) :
          DX(path[i], path[i + 1]) + DY(path[i], path[i + 1]) = 2
    /\ \E c \in Cells \ Elems(path) :
          /\ grid[c] = MaxCost
          /\ Adjacent(start, c, FALSE)
          /\ Adjacent(c, end, FALSE)

\* the heuristic astar adds to the cost of the cell n in a grid of width w
Heuristic(w, goal, n) == manhattan(goal % w, goal \div w, n % w, n \div w)

\* C7 as stated: in 8-directional mode there are a grid within the bounds, a
\* goal and a cell n from which the goal is reachable whose heuristic
\* exceeds the least cost of a walk from n to the goal.
C7_Original ==
    (pc = "search" /\ ~cardinal_directions) => \E sh \in Shapes : \E g \in [0..(sh[2] - 1) -> CostValues] :
        \E goal \in DOMAIN g :
            LET d == LeastCosts(g, sh[1], goal, FALSE)
            IN  \E n \in DOMAIN g :
                    /\ d[n + 1] < Unreached
                    /\ Heuristic(sh[1], goal, n) > d[n + 1]

\* C7 amended: in 8-directional mode the heuristic is admissible: for the
\* inputs of every call and every cell n from which end is reachable,
\* manhattan(n, end) is at most the least cost of a walk from n to end.
C7_Admissible ==
    (pc = "search" /\ current_position = NoCell /\ ~cardinal_directions) =>
        LET d == LeastCosts(grid, width, end, FALSE)
        IN  \A n \in Cells :
                d[n + 1] < Unreached => Heuristic(width, end, n) <= d[n + 1]

\* an 8-directional call with a cell two columns and one row from end whose
\* least cost to end is that of one diagonal and one orthogonal step
C7_Witness ==
    /\ pc = "search"
    /\ current_position = NoCell
    /\ ~cardinal_directions
    /\ \E n \in Cells :
          /\ DX(n, end) = 2 /\ DY(n, end) = 1
          /\ LeastCosts(grid, width, end, FALSE)[n + 1] = 5

\* ------------------------------------------------------------- frontier
\* the entries of the least priority
MinEntries(fr) ==
    {i \in BagToSet(fr) : \A j \in BagToSet(fr) : i.cost <= j.cost}

\* C5 as stated: when two or more entries share the least priority, the
\* next pop returns the one of the lowest cell index.
C5_Original ==
    [][(pc = "search" /\ Cardinality(MinEntries(frontier)) >= 2) =>
          \A i \in MinEntries(frontier) : current_position' <= i.position]_vars

\* C5 amended: when two or more entries share the least priority, the next
\* pop returns the one of the highest cell index.
C5_HigherIndexFirst ==
    [][(pc = "search" /\ Cardinality(MinEntries(frontier)) >= 2) =>
          \A i \in MinEntries(frontier) : current_position' >= i.position]_vars

\* a pop has been made and the frontier holds a tie for the least priority
C5_Witness ==
    /\ pc = "search"
    /\ current_position # NoCell
    /\ Cardinality(MinEntries(frontier)) >= 2

\* the cell c is written by the step: an entry for it is pushed
Pushed(c) ==
    \E i \in BagToSet(frontier') :
        i.position = c /\ CopiesIn(i, frontier') > CopiesIn(i, frontier)

\* C8: an entry of cost_so_far is never removed, every later write to it
\* stores a strictly smaller value, and every stored value is >= 1.
C8_CostsOnlyImprove ==
    /\ [][\A c \in DOMAIN cost_so_far :
            /\ c \in DOMAIN cost_so_far'
            /\ cost_so_far'[c] <= cost_so_far[c]
            /\ (Pushed(c) \/ (c \in DOMAIN came_from
                                /\ came_from'[c] # came_from[c]))
                  => cost_so_far'[c] < cost_so_far[c]]_vars
    /\ [](\A c \in DOMAIN cost_so_far : cost_so_far[c] >= 1)

\* the frontier holds two entries for one cell: its cost was lowered after
\* it was first stored
C8_Witness ==
    \E i \in BagToSet(frontier) : \E j \in BagToSet(frontier) :
        i.position = j.position /\ i.cost < j.cost

RECURSIVE SumOver(_, _)
SumOver(F(_), S) ==
    IF S = {} THEN 0
    ELSE LET c == CHOOSE x \in S : TRUE IN F(c) + SumOver(F, S \ {c})

\* what is left to do in the search loop with the costs cs and the frontier
\* fr: twice the stored costs, Unreached for a cell that has none (each push
\* lowers one strictly), plus the entries still to pop
SearchRank(cs, fr) ==
    LET StoredCost(c) == IF c \in DOMAIN cs THEN cs[c] ELSE Unreached
    IN  Unreached + 3 + 2 * SumOver(StoredCost, Cells) + BagCardinality(fr)

\* what is left to do; in the reconstruction loop, the cost of the cell it
\* stands on (each link leads to a cell of smaller cost)
Rank ==
    CASE pc = "call" -> 2 * (MaxLen + 1) * (Unreached + 1) + 4
      [] pc = "search" -> SearchRank(cost_so_far, frontier)
      [] pc = "reconstruct" ->
            2 + (IF last \in DOMAIN cost_so_far THEN cost_so_far[last] ELSE 0)
      [] pc = "reverse" -> 1
      [] OTHER -> 0

\* C9: the call terminates: the search loop stops, because only finitely
\* many strictly improving pushes are possible, and the reconstruction loop
\* after it stops.  Rank is never negative, every step of the call lowers
\* it, and so does every iteration of the search loop that expands a cell,
\* also one that would leave the state as it is.
C9_Terminates ==
    /\ [](Rank >= 0)
    /\ [][Rank' < Rank]_vars
    /\ []((pc = "search" /\ frontier # EmptyBag
             /\ HeapPeek(frontier).position # end)
          => SearchRank(Expanded.cs, Expanded.fr)
               < SearchRank(cost_so_far, frontier))

\* the call has returned after the goal was popped with the frontier still
\* holding entries
C9_Witness ==
    /\ pc = "done"
    /\ frontier # EmptyBag
    /\ Len(path) >= 2
====
